---- MODULE Spec2Model ----
(***************************************************************************)
(* A model of src/src/design/streamlit_course.py: the course development   *)
(* flow (fetch -> context -> outline -> lesson plans) and the exports of   *)
(* main().                                                                 *)
(*                                                                         *)
(* Texts that the code inspects character by character (the outline, the   *)
(* module titles, the lesson plans, the exports) are sequences of          *)
(* one-character strings.  A Python dict is a sequence of <<key, value>>   *)
(* pairs with distinct keys, in insertion order.  An optional value is a   *)
(* sequence of length 0 (absent) or 1 (present).                           *)
(***************************************************************************)
EXTENDS Naturals, Sequences, FiniteSets, TLC

VARIABLES
    pc,                 \* position of the run / of the function under study
    subject_input,      \* st.text_input value (line 174)
    module_count,       \* st.number_input value (line 175)
    news_articles,      \* fetch_external_data's title list
    scholar_papers,     \* fetch_semantic_scholar_data's title list
    ui_errors,          \* st.error messages shown, in order
    http_log,           \* history: what each search request met
    external_context,   \* combine_external_context's blob (pieces)
    events,             \* history: the external calls and exports, in order
    llm_calls,          \* history: every completion() call with its outcome
    outline,            \* generate_course_outline's return value
    modules,            \* the parsed module lines
    widget_selection,   \* st.multiselect's value: positions in modules
    selected_modules,   \* st.multiselect's return value
    i,                  \* iterations of the lesson-plan loop completed
    lesson_plans,       \* the dict built by the loop
    progress_log,       \* history: every value given to progress_bar.progress
    json_export,        \* optional: data of the JSON download button
    markdown_content,   \* optional: data of the Markdown download button
    pdf_bytes,          \* optional: the PDF's blocks
    reparsed,           \* optional: the parse of the joined module list
    json_loaded         \* optional: json.loads of json_export

vars == <<pc, subject_input, module_count, news_articles, scholar_papers,
          ui_errors, http_log, external_context, events, llm_calls, outline, modules,
          widget_selection, selected_modules, i, lesson_plans, progress_log,
          json_export, markdown_content, pdf_bytes, reparsed, json_loaded>>

flow_vars == <<subject_input, module_count, news_articles, scholar_papers,
               ui_errors, http_log, external_context, events, llm_calls>>
plan_vars == <<widget_selection, selected_modules, i, lesson_plans, progress_log>>
export_vars == <<json_export, markdown_content, pdf_bytes, json_loaded>>

(***************************************************************************)
(* Bounds of the model.                                                    *)
(***************************************************************************)
MaxOutlineLen == 5      \* characters of an outline text in ParseSpec
MaxOutlineLines == 2    \* lines of an LLM outline reply in Spec
MaxItems == 2           \* items of a search API response in Spec
MaxExportModules == 2   \* entries of a mapping in ExportSpec

(***************************************************************************)
(* Text helpers: str.strip, str.split, str.join, re.match.                 *)
(***************************************************************************)
NL == "\n"
Whitespace == {" ", NL}
Digits == {"1", "2"}

\* All sequences over S of length at most n.
SeqsUpTo(S, n) == UNION {[1..k -> S] : k \in 0..n}

RECURSIVE Flatten(_)
Flatten(ss) == IF ss = <<>> THEN <<>> ELSE Head(ss) \o Flatten(Tail(ss))

RECURSIVE LStrip(_)
LStrip(s) ==
    IF s # <<>> /\ Head(s) \in Whitespace THEN LStrip(Tail(s)) ELSE s

RECURSIVE RStrip(_)
RStrip(s) ==
    IF s # <<>> /\ s[Len(s)] \in Whitespace
    THEN RStrip(SubSeq(s, 1, Len(s) - 1)) ELSE s

\* A strip that removes at most one whitespace character at each end.
StripOne(s) ==
    LET l == IF s # <<>> /\ Head(s) \in Whitespace THEN Tail(s) ELSE s
    IN  IF l # <<>> /\ l[Len(l)] \in Whitespace
        THEN SubSeq(l, 1, Len(l) - 1) ELSE l

\* str.strip()
Strip(s) == RStrip(LStrip(s))

\* str.split(sep) for a one-character sep: always at least one piece.
RECURSIVE SplitAcc(_, _, _)
SplitAcc(s, sep, cur) ==
    IF s = <<>> THEN <<cur>>
    ELSE IF Head(s) = sep THEN <<cur>> \o SplitAcc(Tail(s), sep, <<>>)
    ELSE SplitAcc(Tail(s), sep, Append(cur, Head(s)))

Split(s, sep) == SplitAcc(s, sep, <<>>)

\* sep.join(parts), parts and sep being texts.
RECURSIVE Join(_, _)
Join(parts, sep) ==
    IF parts = <<>> THEN <<>>
    ELSE IF Len(parts) = 1 THEN parts[1]
    ELSE parts[1] \o sep \o Join(Tail(parts), sep)

\* The number of leading digits of a line.
RECURSIVE LeadingDigits(_)
LeadingDigits(line) ==
    IF line # <<>> /\ Head(line) \in Digits
    THEN 1 + LeadingDigits(Tail(line)) ELSE 0

\* re.match(r"^\d+\.", line)
MatchNumbered(line) ==
    LET d == LeadingDigits(line)
    IN  d >= 1 /\ Len(line) > d /\ line[d + 1] = "."

(***************************************************************************)
(* The outline parser (generate_lesson_plans, lines 127-132).              *)
(***************************************************************************)
NonEmpty(s) == s # <<>>

\* lines = [line.strip() for line in outline.split("\n") if line.strip()]
OutlineLines(text) ==
    LET raw == Split(text, NL)
    IN  SelectSeq([k \in 1..Len(raw) |-> Strip(raw[k])], NonEmpty)

\* A parser without the fallback to all lines.
ParseOutlineNoFallback(text) == SelectSeq(OutlineLines(text), MatchNumbered)

\* modules = [line for line in lines if re.match(...)]; if not modules: modules = lines
ParseOutline(text) ==
    LET lines == OutlineLines(text)
        numbered == SelectSeq(lines, MatchNumbered)
    IN  IF numbered = <<>> THEN lines ELSE numbered

(***************************************************************************)
(* A Python dict: <<key, value>> pairs, distinct keys, insertion order.    *)
(***************************************************************************)
DictKeys(d) == [k \in 1..Len(d) |-> d[k][1]]

DictHas(d, key) == \E k \in 1..Len(d) : d[k][1] = key

\* An assignment that keeps the value a key already has (dict.setdefault).
DictSetKeepFirst(d, key, val) ==
    IF DictHas(d, key) THEN d ELSE Append(d, <<key, val>>)

\* d[key] = val: a new key goes last, a known key keeps its place.
DictSet(d, key, val) ==
    IF DictHas(d, key)
    THEN [k \in 1..Len(d) |-> IF d[k][1] = key THEN <<key, val>> ELSE d[k]]
    ELSE Append(d, <<key, val>>)

(***************************************************************************)
(* str(n) for a natural number.                                            *)
(***************************************************************************)
DecimalDigit(n) ==
    CASE n = 0 -> "0" [] n = 1 -> "1" [] n = 2 -> "2" [] n = 3 -> "3"
      [] n = 4 -> "4" [] n = 5 -> "5" [] n = 6 -> "6" [] n = 7 -> "7"
      [] n = 8 -> "8" [] n = 9 -> "9"

RECURSIVE DecimalText(_)
DecimalText(n) ==
    IF n < 10 THEN <<DecimalDigit(n)>>
    ELSE Append(DecimalText(n \div 10), DecimalDigit(n % 10))

(***************************************************************************)
(* The JSON export (main, lines 193-205): course_data and json.dumps with  *)
(* indent=2.  A JSON value is tagged: a string, an array or an object (an  *)
(* ordered sequence of <<key, value>> pairs).                              *)
(***************************************************************************)
JStr(s) == [t |-> "str", v |-> s]
JArr(a) == [t |-> "arr", v |-> a]
JObj(pairs) == [t |-> "obj", v |-> pairs]

K_subject == <<"s", "u", "b", "j", "e", "c", "t">>
K_modules == <<"m", "o", "d", "u", "l", "e", "s">>
K_title == <<"t", "i", "t", "l", "e">>
K_lesson_plan == <<"l", "e", "s", "s", "o", "n", "_", "p", "l", "a", "n">>

\* An entry list that writes the module title into both fields.
ModuleEntriesTitleOnly(plans) ==
    [k \in 1..Len(plans) |->
        JObj(<< <<K_title, JStr(plans[k][1])>>,
                <<K_lesson_plan, JStr(plans[k][1])>> >>)]

\* [{"title": module, "lesson_plan": plan} for module, plan in lesson_plans.items()]
ModuleEntries(plans) ==
    [k \in 1..Len(plans) |->
        JObj(<< <<K_title, JStr(plans[k][1])>>,
                <<K_lesson_plan, JStr(plans[k][2])>> >>)]

\* course_data (lines 193-196)
CourseData(subject, plans) ==
    JObj(<< <<K_subject, JStr(subject)>>,
            <<K_modules, JArr(ModuleEntries(plans))>> >>)

\* json's escape of one character of a string.
EscapeChar(c) ==
    CASE c = "\"" -> <<"\\", "\"">>
      [] c = "\\" -> <<"\\", "\\">>
      [] c = NL   -> <<"\\", "n">>
      [] OTHER    -> <<c>>

EncodeString(s) ==
    <<"\"">> \o Flatten([k \in 1..Len(s) |-> EscapeChar(s[k])]) \o <<"\"">>

Indent(level) == [k \in 1..(2 * level) |-> " "]

\* json.dumps(value, indent=2), value nested at the given level.
RECURSIVE Dumps(_, _)
Dumps(value, level) ==
    LET sep == <<",", NL>> \o Indent(level + 1)
        open == <<NL>> \o Indent(level + 1)
        close == <<NL>> \o Indent(level)
    IN  CASE value.t = "str" -> EncodeString(value.v)
          [] value.t = "arr" ->
                IF value.v = <<>> THEN <<"[", "]">>
                ELSE <<"[">> \o open
                     \o Join([k \in 1..Len(value.v) |->
                                 Dumps(value.v[k], level + 1)], sep)
                     \o close \o <<"]">>
          [] value.t = "obj" ->
                IF value.v = <<>> THEN <<"{", "}">>
                ELSE <<"{">> \o open
                     \o Join([k \in 1..Len(value.v) |->
                                 EncodeString(value.v[k][1]) \o <<":", " ">>
                                 \o Dumps(value.v[k][2], level + 1)], sep)
                     \o close \o <<"}">>

\* data=json.dumps(course_data, indent=2) (line 202)
JsonExport(subject, plans) == Dumps(CourseData(subject, plans), 0)

(***************************************************************************)
(* json.loads, the standard decoder the round trip is stated with: a       *)
(* recursive descent over the text.  A result is [ok, v, p]: whether a     *)
(* value was read, the value, and the position after it.                   *)
(***************************************************************************)
JFail == [ok |-> FALSE, v |-> JStr(<<>>), p |-> 0]

RECURSIVE SkipWs(_, _)
SkipWs(txt, p) ==
    IF p <= Len(txt) /\ txt[p] \in Whitespace THEN SkipWs(txt, p + 1) ELSE p

\* The characters of a string literal from position p (after the opening
\* quote) to its closing quote, escapes decoded.
RECURSIVE ScanString(_, _, _)
ScanString(txt, p, acc) ==
    IF p > Len(txt) THEN JFail
    ELSE IF txt[p] = "\"" THEN [ok |-> TRUE, v |-> JStr(acc), p |-> p + 1]
    ELSE IF txt[p] = NL THEN JFail
    ELSE IF txt[p] = "\\"
         THEN IF p + 1 > Len(txt) THEN JFail
              ELSE IF txt[p + 1] = "n"
                   THEN ScanString(txt, p + 2, Append(acc, NL))
              ELSE IF txt[p + 1] \in {"\"", "\\"}
                   THEN ScanString(txt, p + 2, Append(acc, txt[p + 1]))
              ELSE JFail
    ELSE ScanString(txt, p + 1, Append(acc, txt[p]))

RECURSIVE ParseValue(_, _)
RECURSIVE ParseElements(_, _, _)
RECURSIVE ParseMembers(_, _, _)

\* The elements of an array from position p, acc holding those already read.
ParseElements(txt, p, acc) ==
    LET e == ParseValue(txt, p)
        q == SkipWs(txt, e.p)
    IN  IF ~e.ok \/ q > Len(txt) THEN JFail
        ELSE IF txt[q] = "," THEN ParseElements(txt, q + 1, Append(acc, e.v))
        ELSE IF txt[q] = "]"
             THEN [ok |-> TRUE, v |-> JArr(Append(acc, e.v)), p |-> q + 1]
        ELSE JFail

\* The members of an object from position p.
ParseMembers(txt, p, acc) ==
    LET k0 == SkipWs(txt, p)
        key == IF k0 <= Len(txt) /\ txt[k0] = "\""
               THEN ScanString(txt, k0 + 1, <<>>) ELSE JFail
        c == SkipWs(txt, key.p)
        val == IF key.ok /\ c <= Len(txt) /\ txt[c] = ":"
               THEN ParseValue(txt, c + 1) ELSE JFail
        q == SkipWs(txt, val.p)
        member == <<key.v.v, val.v>>
    IN  IF ~val.ok \/ q > Len(txt) THEN JFail
        ELSE IF txt[q] = "," THEN ParseMembers(txt, q + 1, Append(acc, member))
        ELSE IF txt[q] = "}"
             THEN [ok |-> TRUE, v |-> JObj(Append(acc, member)), p |-> q + 1]
        ELSE JFail

ParseValue(txt, p0) ==
    LET p == SkipWs(txt, p0)
    IN  IF p > Len(txt) THEN JFail
        ELSE IF txt[p] = "\"" THEN ScanString(txt, p + 1, <<>>)
        ELSE IF txt[p] = "["
             THEN LET q == SkipWs(txt, p + 1)
                  IN  IF q <= Len(txt) /\ txt[q] = "]"
                      THEN [ok |-> TRUE, v |-> JArr(<<>>), p |-> q + 1]
                      ELSE ParseElements(txt, p + 1, <<>>)
        ELSE IF txt[p] = "{"
             THEN LET q == SkipWs(txt, p + 1)
                  IN  IF q <= Len(txt) /\ txt[q] = "}"
                      THEN [ok |-> TRUE, v |-> JObj(<<>>), p |-> q + 1]
                      ELSE ParseMembers(txt, p + 1, <<>>)
        ELSE JFail

\* json.loads(text): the whole text is one value.
JsonLoads(txt) ==
    LET r == ParseValue(txt, 1)
    IN  IF r.ok /\ SkipWs(txt, r.p) = Len(txt) + 1 THEN r ELSE JFail

(***************************************************************************)
(* The Markdown export (main, lines 206-215).                              *)
(***************************************************************************)
T_course_curriculum ==
    <<" ", "C", "o", "u", "r", "s", "e", " ",
      "C", "u", "r", "r", "i", "c", "u", "l", "u", "m">>
T_module == <<"M", "o", "d", "u", "l", "e", " ">>

\* f"Module {n}: {module}"
ModuleLabel(n, module) == T_module \o DecimalText(n) \o <<":", " ">> \o module

\* f"## Module {i+1}: {module}\n\n{plan}\n\n"
MarkdownSection(n, module, plan) ==
    <<"#", "#", " ">> \o ModuleLabel(n, module) \o <<NL, NL>> \o plan \o <<NL, NL>>

\* A body that writes the sections without a heading marker.
MarkdownBodyNoHeading(plans) ==
    Flatten([k \in 1..Len(plans) |->
                ModuleLabel(k, plans[k][1]) \o <<NL, NL>> \o plans[k][2] \o <<NL, NL>>])

\* the loop of lines 208-209
MarkdownBody(plans) ==
    Flatten([k \in 1..Len(plans) |-> MarkdownSection(k, plans[k][1], plans[k][2])])

\* markdown_content (lines 207-209)
MarkdownExport(subject, plans) ==
    <<"#", " ">> \o subject \o T_course_curriculum \o <<NL, NL>> \o MarkdownBody(plans)

(***************************************************************************)
(* The PDF export (generate_pdf_content, lines 9-27): the cells written,   *)
(* in order.  The page layout and the byte encoding are FPDF's.            *)
(***************************************************************************)
PdfExport(subject, plans) ==
    << [kind |-> "title", text |-> subject \o T_course_curriculum] >>
    \o Flatten([k \in 1..Len(plans) |->
                  << [kind |-> "heading", text |-> ModuleLabel(k, plans[k][1])],
                     [kind |-> "body", text |-> plans[k][2]] >>])

(***************************************************************************)
(* Inputs of a run: the form, the two search APIs, the LLM, the widget.    *)
(***************************************************************************)
DefaultModuleCount == 3

\* The form: a subject, and the module count the number input starts with
\* (the count goes into the outline prompt's text and nowhere else).
Subjects == { <<"A", " ", "I">> }
ModuleCounts == {DefaultModuleCount}

\* An item of a search result: an object that has a "title" or lacks it.
ItemVocab == { [has_title |-> TRUE, title |-> "t"],
               [has_title |-> FALSE, title |-> ""] }

\* What requests.get and the response can do.
Outcomes == {"ok", "network_error", "timeout", "bad_json", "http_error"}

Responses ==
    [outcome : {"ok"}, items : SeqsUpTo(ItemVocab, MaxItems)]
    \cup [outcome : Outcomes \ {"ok"}, items : {<<>>}]

\* The lines an LLM outline reply is made of, and the replies.
OutlineLineVocab == { <<"1", ".", "a">>, <<"2", ".", "b">>, <<" ", "x">> }
OutlineReplies ==
    { Join(ls, <<NL>>) : ls \in SeqsUpTo(OutlineLineVocab, MaxOutlineLines) }

\* The texts an LLM lesson-plan reply can be.
PlanReplies == { <<"p">>, <<"#", "#", "q", NL>> }

\* completion() returns a content or raises.
LlmOutcomes(contents) ==
    [ok : {TRUE}, content : contents] \cup {[ok |-> FALSE, content |-> <<>>]}

(***************************************************************************)
(* fetch_external_data / fetch_semantic_scholar_data (lines 41-82).        *)
(* A result is [raised, titles, propagate]: whether the try block raised,  *)
(* the list the function ends with, and whether the exception leaves the   *)
(* function.                                                               *)
(***************************************************************************)
Titles(items) == [k \in 1..Len(items) |-> items[k].title]

MissingTitle(items) == \E k \in 1..Len(items) : ~items[k].has_title

\* A news fetch with no try/except around it.
TryNewsNoHandler(resp) ==
    IF resp.outcome \in {"network_error", "timeout", "bad_json"}
       \/ MissingTitle(resp.items)
    THEN [raised |-> TRUE, titles |-> <<>>, propagate |-> TRUE]
    ELSE [raised |-> FALSE, titles |-> Titles(resp.items), propagate |-> FALSE]

\* lines 52-60: requests.get, .json(), the comprehension; except Exception.
\* No raise_for_status: an error status with a JSON body has no "articles".
TryNews(resp) ==
    IF resp.outcome \in {"network_error", "timeout", "bad_json"}
       \/ MissingTitle(resp.items)
    THEN [raised |-> TRUE, titles |-> <<>>, propagate |-> FALSE]
    ELSE [raised |-> FALSE, titles |-> Titles(resp.items), propagate |-> FALSE]

\* lines 73-82: requests.get, raise_for_status, .json(), the comprehension.
TryScholar(resp) ==
    IF resp.outcome # "ok" \/ MissingTitle(resp.items)
    THEN [raised |-> TRUE, titles |-> <<>>, propagate |-> FALSE]
    ELSE [raised |-> FALSE, titles |-> Titles(resp.items), propagate |-> FALSE]

\* ', '.join(titles), titles being whole pieces of the blob.
RECURSIVE JoinPieces(_, _)
JoinPieces(parts, sep) ==
    IF parts = <<>> THEN <<>>
    ELSE IF Len(parts) = 1 THEN <<parts[1]>>
    ELSE <<parts[1], sep>> \o JoinPieces(Tail(parts), sep)

\* lines 98-101: the context blob, as the pieces it is concatenated from.
ContextBlob(news, papers) ==
    <<"News Headlines: ">> \o JoinPieces(news, ", ") \o <<". ">>
    \o <<"Research Papers: ">> \o JoinPieces(papers, ", ") \o <<".">>

(***************************************************************************)
(* st.multiselect (lines 135-139).  The widget's value is a list of        *)
(* positions of the options: the default's positions (each default value   *)
(* looked up in the options) until the user edits it, then the positions   *)
(* in the order the user picked them.                                      *)
(***************************************************************************)
FirstIndex(s, x) == CHOOSE k \in 1..Len(s) :
                        s[k] = x /\ \A j \in 1..(k - 1) : s[j] # x

DefaultSelection(options) ==
    [k \in 1..Len(options) |-> FirstIndex(options, options[k])]

UserSelections(options) ==
    { sel \in SeqsUpTo(1..Len(options), Len(options)) :
        \A a, b \in 1..Len(sel) : a # b => sel[a] # sel[b] }

Selections(options) == {DefaultSelection(options)} \cup UserSelections(options)

\* A widget that returns the selected options in the options' order.
SelectedModulesOutlineOrder(options, sel) ==
    LET picked == {sel[k] : k \in 1..Len(sel)}
        Keep(pos) == pos \in picked
        positions == SelectSeq([k \in 1..Len(options) |-> k], Keep)
    IN  [k \in 1..Len(positions) |-> options[positions[k]]]

\* The list st.multiselect returns: the options at the value's positions.
SelectedModules(options, sel) == [k \in 1..Len(sel) |-> options[sel[k]]]

\* A handler that goes on to the exports when completion() raises.
LlmFailurePcPartialExport == "export"

\* Where the run is after completion() raises: nothing catches it
\* (lines 113-117, 151-155, 185).
LlmFailurePc == "aborted"

\* (i + 1) / len(selected_modules), as the fraction num/den.
ProgressOffByOne(idx, n) == [num |-> idx, den |-> n]

Progress(idx, n) == [num |-> idx + 1, den |-> n]

(***************************************************************************)
(* The run: main() on submit, flow.kickoff(), the exports.                 *)
(***************************************************************************)
Blank ==
    /\ subject_input = <<>>
    /\ module_count = DefaultModuleCount
    /\ news_articles = <<>>
    /\ scholar_papers = <<>>
    /\ ui_errors = <<>>
    /\ http_log = <<>>
    /\ external_context = <<>>
    /\ events = <<>>
    /\ llm_calls = <<>>
    /\ outline = <<>>
    /\ modules = <<>>
    /\ widget_selection = <<>>
    /\ selected_modules = <<>>
    /\ i = 0
    /\ lesson_plans = <<>>
    /\ progress_log = <<>>
    /\ json_export = <<>>
    /\ markdown_content = <<>>
    /\ pdf_bytes = <<>>
    /\ reparsed = <<>>
    /\ json_loaded = <<>>

Init == pc = "form" /\ Blank

\* main, lines 173-185, and get_subject: the form is submitted.
get_subject ==
    /\ pc = "form"
    /\ \E subject \in Subjects, count \in ModuleCounts :
          /\ subject_input' = subject
          /\ module_count' = count
    /\ pc' = "fetch_news"
    /\ UNCHANGED <<news_articles, scholar_papers, ui_errors, http_log,
                   external_context, events, llm_calls, outline, modules, plan_vars,
                   export_vars, reparsed>>

\* fetch_external_data, lines 41-62: the news request.
fetch_external_data ==
    /\ pc = "fetch_news"
    /\ \E resp \in Responses :
          LET r == TryNews(resp)
          IN  /\ news_articles' = r.titles
              /\ ui_errors' = IF r.raised /\ ~r.propagate
                              THEN Append(ui_errors, "Error fetching news data")
                              ELSE ui_errors
              /\ pc' = IF r.propagate THEN "aborted" ELSE "fetch_scholar"
              /\ http_log' = Append(http_log,
                    [api |-> "news", outcome |-> resp.outcome,
                     missing_title |-> MissingTitle(resp.items)])
    /\ events' = Append(events, "news_fetch")
    /\ UNCHANGED <<subject_input, module_count, scholar_papers,
                   external_context, llm_calls, outline, modules, plan_vars,
                   export_vars, reparsed>>

\* fetch_semantic_scholar_data, lines 63-82, and the return of line 64.
fetch_semantic_scholar_data ==
    /\ pc = "fetch_scholar"
    /\ \E resp \in Responses :
          LET r == TryScholar(resp)
          IN  /\ scholar_papers' = r.titles
              /\ ui_errors' = IF r.raised /\ ~r.propagate
                              THEN Append(ui_errors,
                                          "Error fetching Semantic Scholar data")
                              ELSE ui_errors
              /\ pc' = IF r.propagate THEN "aborted" ELSE "combine"
              /\ http_log' = Append(http_log,
                    [api |-> "scholar", outcome |-> resp.outcome,
                     missing_title |-> MissingTitle(resp.items)])
    /\ events' = Append(events, "scholar_fetch")
    /\ UNCHANGED <<subject_input, module_count, news_articles,
                   external_context, llm_calls, outline, modules, plan_vars,
                   export_vars, reparsed>>

\* combine_external_context, lines 84-102.
combine_external_context ==
    /\ pc = "combine"
    /\ external_context' = ContextBlob(news_articles, scholar_papers)
    /\ events' = Append(events, "combine")
    /\ pc' = "outline"
    /\ UNCHANGED <<subject_input, module_count, news_articles, scholar_papers,
                   ui_errors, http_log, llm_calls, outline, modules, plan_vars,
                   export_vars, reparsed>>

\* generate_course_outline, lines 104-120: one completion() call; a raise
\* is not caught anywhere up to main.
generate_course_outline ==
    /\ pc = "outline"
    /\ \E reply \in LlmOutcomes(OutlineReplies) :
          /\ llm_calls' = Append(llm_calls,
                [kind |-> "outline", about |-> subject_input,
                 ok |-> reply.ok, content |-> reply.content])
          /\ outline' = IF reply.ok THEN Strip(reply.content) ELSE outline
          /\ pc' = IF reply.ok THEN "select" ELSE LlmFailurePc
    /\ events' = Append(events, "llm_outline")
    /\ UNCHANGED <<subject_input, module_count, news_articles, scholar_papers,
                   ui_errors, http_log, external_context, modules, plan_vars,
                   export_vars, reparsed>>

\* generate_lesson_plans, lines 123-143: parse, multiselect, empty dict.
generate_lesson_plans ==
    /\ pc = "select"
    /\ modules' = ParseOutline(outline)
    /\ \E sel \in Selections(ParseOutline(outline)) :
          /\ widget_selection' = sel
          /\ selected_modules' = SelectedModules(ParseOutline(outline), sel)
    /\ lesson_plans' = <<>>
    /\ progress_log' = <<>>
    /\ i' = 0
    /\ pc' = "loop"
    /\ UNCHANGED <<flow_vars, outline, export_vars, reparsed>>

\* One iteration of the loop of lines 145-158.
lesson_plan_iteration ==
    /\ pc = "loop"
    /\ i < Len(selected_modules)
    /\ LET module == selected_modules[i + 1]
       IN  \E reply \in LlmOutcomes(PlanReplies) :
              /\ llm_calls' = Append(llm_calls,
                    [kind |-> "lesson", about |-> module,
                     ok |-> reply.ok, content |-> reply.content])
              /\ IF reply.ok
                 THEN /\ lesson_plans' =
                            DictSet(lesson_plans, module, Strip(reply.content))
                      /\ progress_log' =
                            Append(progress_log,
                                   Progress(i, Len(selected_modules)))
                      /\ i' = i + 1
                      /\ pc' = "loop"
                 ELSE /\ pc' = LlmFailurePc
                      /\ UNCHANGED <<lesson_plans, progress_log, i>>
    /\ events' = Append(events, "llm_lesson")
    /\ UNCHANGED <<subject_input, module_count, news_articles, scholar_papers,
                   ui_errors, http_log, external_context, outline, modules,
                   widget_selection, selected_modules, export_vars, reparsed>>

\* A loop that ends after its first iteration.
lesson_plans_return_early ==
    /\ pc = "loop"
    /\ i = Len(selected_modules) \/ i >= 1
    /\ pc' = "export"
    /\ UNCHANGED <<flow_vars, outline, modules, plan_vars, export_vars, reparsed>>

\* lines 160-161 and main, line 185: the loop is over, kickoff returns.
lesson_plans_return ==
    /\ pc = "loop"
    /\ i = Len(selected_modules)
    /\ pc' = "export"
    /\ UNCHANGED <<flow_vars, outline, modules, plan_vars, export_vars, reparsed>>

\* main, lines 187-224: the three exports, from lesson_plans.
main_export ==
    /\ pc = "export"
    /\ json_export' = <<JsonExport(subject_input, lesson_plans)>>
    /\ markdown_content' = <<MarkdownExport(subject_input, lesson_plans)>>
    /\ pdf_bytes' = <<PdfExport(subject_input, lesson_plans)>>
    /\ events' = events \o <<"export_json", "export_md", "export_pdf">>
    /\ pc' = "done"
    /\ UNCHANGED <<subject_input, module_count, news_articles, scholar_papers,
                   ui_errors, http_log, external_context, llm_calls, outline,
                   modules, plan_vars, json_loaded, reparsed>>

Next ==
    \/ get_subject
    \/ fetch_external_data
    \/ fetch_semantic_scholar_data
    \/ combine_external_context
    \/ generate_course_outline
    \/ generate_lesson_plans
    \/ lesson_plan_iteration
    \/ lesson_plans_return
    \/ main_export

Spec == Init /\ [][Next]_vars

(***************************************************************************)
(* ParseSpec: the outline parser applied to every text of a bounded        *)
(* alphabet, then to its own output joined back into lines.                *)
(***************************************************************************)
OutlineAlphabet == {"1", ".", "a", " ", NL}

ParseInit ==
    /\ pc = "parse_input"
    /\ outline \in SeqsUpTo(OutlineAlphabet, MaxOutlineLen)
    /\ subject_input = <<>>
    /\ module_count = DefaultModuleCount
    /\ news_articles = <<>> /\ scholar_papers = <<>> /\ ui_errors = <<>>
    /\ http_log = <<>>
    /\ external_context = <<>> /\ events = <<>> /\ llm_calls = <<>>
    /\ modules = <<>> /\ widget_selection = <<>> /\ selected_modules = <<>>
    /\ i = 0 /\ lesson_plans = <<>> /\ progress_log = <<>>
    /\ json_export = <<>> /\ markdown_content = <<>> /\ pdf_bytes = <<>>
    /\ reparsed = <<>> /\ json_loaded = <<>>

\* lines 127-132 applied to the text.
parse_outline ==
    /\ pc = "parse_input"
    /\ modules' = ParseOutline(outline)
    /\ pc' = "parsed"
    /\ UNCHANGED <<flow_vars, outline, plan_vars, export_vars, reparsed>>

\* lines 127-132 applied to "\n".join(modules).
reparse_modules ==
    /\ pc = "parsed"
    /\ reparsed' = <<ParseOutline(Join(modules, <<NL>>))>>
    /\ pc' = "reparsed"
    /\ UNCHANGED <<flow_vars, outline, modules, plan_vars, export_vars>>

ParseNext == parse_outline \/ reparse_modules

ParseSpec == ParseInit /\ [][ParseNext]_vars

(***************************************************************************)
(* ExportSpec: the exports applied to every mapping of a bounded           *)
(* vocabulary, then json.loads applied to the JSON export.  Titles are     *)
(* trimmed non-empty lines and plans are stripped texts, as the loop       *)
(* stores them.                                                            *)
(***************************************************************************)
ExportSubjects == { <<"M", "L">>, <<"A", " ", "I">> }
ExportTitles == { <<"a">>, <<"#", "#">>, <<"\"", "\\">> }
ExportPlans == { <<>>, <<"p">>, <<"#", "#", " ", "h">>,
                 <<"a", NL, "#", "#", "b">>, <<"\\", "n", "\"">> }

Mappings ==
    { m \in SeqsUpTo(ExportTitles \X ExportPlans, MaxExportModules) :
        \A a, b \in 1..Len(m) : a # b => m[a][1] # m[b][1] }

ExportInit ==
    /\ pc = "export"
    /\ subject_input \in ExportSubjects
    /\ lesson_plans \in Mappings
    /\ module_count = DefaultModuleCount
    /\ news_articles = <<>> /\ scholar_papers = <<>> /\ ui_errors = <<>>
    /\ http_log = <<>>
    /\ external_context = <<>> /\ events = <<>> /\ llm_calls = <<>>
    /\ outline = <<>> /\ modules = <<>>
    /\ widget_selection = <<>> /\ selected_modules = <<>>
    /\ i = 0 /\ progress_log = <<>>
    /\ json_export = <<>> /\ markdown_content = <<>> /\ pdf_bytes = <<>>
    /\ reparsed = <<>> /\ json_loaded = <<>>

\* json.loads of the JSON download's data.
load_json_export ==
    /\ pc = "done"
    /\ json_loaded' = <<JsonLoads(json_export[1])>>
    /\ pc' = "loaded"
    /\ UNCHANGED <<flow_vars, outline, modules, plan_vars, json_export,
                   markdown_content, pdf_bytes, reparsed>>

ExportNext == main_export \/ load_json_export

ExportSpec == ExportInit /\ [][ExportNext]_vars

(***************************************************************************)
(* Statements about the outline parser, checked under ParseSpec.           *)
(***************************************************************************)
\* The lines of a text, read off the positions of its newlines, each cut
\* down to the span from its first to its last non-whitespace character.
LineStarts(text) == {1} \cup {p + 1 : p \in {q \in 1..Len(text) : text[q] = NL}}

LineEnd(text, start) ==
    IF \E q \in start..Len(text) : text[q] = NL
    THEN (CHOOSE q \in start..Len(text) :
              text[q] = NL /\ \A r \in start..(q - 1) : text[r] # NL) - 1
    ELSE Len(text)

Ink(text, start) ==
    {q \in start..LineEnd(text, start) : text[q] \notin Whitespace}

Min(S) == CHOOSE x \in S : \A y \in S : x <= y
Max(S) == CHOOSE x \in S : \A y \in S : x >= y

RECURSIVE Ascending(_)
Ascending(S) ==
    IF S = {} THEN <<>> ELSE <<Min(S)>> \o Ascending(S \ {Min(S)})

InkedStarts(text) == Ascending({st \in LineStarts(text) : Ink(text, st) # {}})

TrimmedLine(text, start) ==
    SubSeq(text, Min(Ink(text, start)), Max(Ink(text, start)))

TrimmedLines(text) ==
    [k \in 1..Len(InkedStarts(text)) |-> TrimmedLine(text, InkedStarts(text)[k])]

\* One or more digits, then a period.
StartsNumbered(line) ==
    \E d \in 1..Len(line) :
        /\ d < Len(line)
        /\ \A j \in 1..d : line[j] \in Digits
        /\ line[d + 1] = "."

\* C4: the module list is the trimmed non-empty lines that start with one
\* or more digits and a period, in their original order; when no line does,
\* it is every trimmed non-empty line in original order.
C4_ParserKeepsNumberedOrAll ==
    pc \in {"parsed", "reparsed"} =>
        LET lines == TrimmedLines(outline)
        IN  IF \E k \in 1..Len(lines) : StartsNumbered(lines[k])
            THEN modules = SelectSeq(lines, StartsNumbered)
            ELSE modules = lines

\* Two lines of plain prose, one of them indented: both are modules.
C4_Witness ==
    /\ pc = "parsed"
    /\ outline = <<"a", NL, " ", "a", ".">>
    /\ modules = << <<"a">>, <<"a", ".">> >>

\* C5: parsing the module list joined back into lines gives the same list,
\* after a parse that kept only numbered lines and after one that fell back.
C5_ParserIdempotent ==
    pc = "reparsed" => reparsed = <<modules>>

\* A parse that dropped an unnumbered line and trimmed a numbered one.
C5_Witness ==
    /\ pc = "reparsed"
    /\ outline = <<"a", NL, " ", "1", ".">>
    /\ modules = << <<"1", ".">> >>
    /\ reparsed = <<modules>>

(***************************************************************************)
(* Statements about the exports, checked under ExportSpec.                 *)
(***************************************************************************)
\* obj[key] of a decoded JSON object.
ObjHas(obj, key) == \E k \in 1..Len(obj.v) : obj.v[k][1] = key
ObjGet(obj, key) == obj.v[CHOOSE k \in 1..Len(obj.v) : obj.v[k][1] = key][2]

\* The decoded document has a "modules" list with one entry per pair of
\* the mapping, the entry's title and lesson_plan being the pair's.
ModulesRoundTrip(loaded, plans) ==
    /\ loaded.ok
    /\ loaded.v.t = "obj"
    /\ ObjHas(loaded.v, K_modules)
    /\ LET ms == ObjGet(loaded.v, K_modules)
       IN  /\ ms.t = "arr"
           /\ Len(ms.v) = Len(plans)
           /\ \A k \in 1..Len(plans) :
                 /\ ms.v[k].t = "obj"
                 /\ Len(ms.v[k].v) = 2
                 /\ ObjHas(ms.v[k], K_title)
                 /\ ObjHas(ms.v[k], K_lesson_plan)
                 /\ ObjGet(ms.v[k], K_title) = JStr(plans[k][1])
                 /\ ObjGet(ms.v[k], K_lesson_plan) = JStr(plans[k][2])

\* C6: parsing the JSON export recovers a "modules" list of exactly N
\* entries whose title and lesson_plan are the mapping's keys and values,
\* in mapping order.
C6_JsonRoundTrip ==
    pc = "loaded" => ModulesRoundTrip(json_loaded[1], lesson_plans)

\* Two modules whose texts need every escape: quote, backslash, newline.
C6_Witness ==
    /\ pc = "loaded"
    /\ lesson_plans = << << <<"\"", "\\">>, <<"a", NL, "#", "#", "b">> >>,
                         << <<"a">>, <<"\\", "n", "\"">> >> >>
    /\ json_loaded[1].ok

\* A line that begins with ##.
BeginsH2(line) == Len(line) >= 2 /\ line[1] = "#" /\ line[2] = "#"

\* The lines of a text that begin with ##, in order.
H2Lines(text) == SelectSeq(Split(text, NL), BeginsH2)

\* The heading line of the k-th module.
H2Of(k, title) == <<"#", "#", " ">> \o ModuleLabel(k, title)

\* C7, as claimed: the Markdown export has exactly one ## heading per
\* module of the mapping, in mapping order, whatever the plan texts hold.
C7_OneHeadingPerModule ==
    pc \in {"done", "loaded"} =>
        H2Lines(markdown_content[1]) =
            [k \in 1..Len(lesson_plans) |-> H2Of(k, lesson_plans[k][1])]

\* C7, amended: the export has one heading line "## Module k: <title>"
\* per module, in mapping order, each followed by the ## lines of that
\* module's plan text and by no other ## line.
C7_OneHeadingPerModulePlusPlanHeadings ==
    pc \in {"done", "loaded"} =>
        H2Lines(markdown_content[1]) =
            Flatten([k \in 1..Len(lesson_plans) |->
                        <<H2Of(k, lesson_plans[k][1])>>
                        \o H2Lines(lesson_plans[k][2])])

\* Two modules, one plan with a ## line of its own below its first line.
C7_Witness ==
    /\ pc = "done"
    /\ Len(lesson_plans) = 2
    /\ lesson_plans[1][2] = <<"a", NL, "#", "#", "b">>
    /\ lesson_plans[2][2] = <<"p">>
    /\ Len(H2Lines(markdown_content[1])) = 3

(***************************************************************************)
(* Statements about a run, checked under Spec.                             *)
(***************************************************************************)
IsLesson(call) == call.kind = "lesson"
IsOk(call) == call.ok
LessonCalls == SelectSeq(llm_calls, IsLesson)

Occurs(e) == \E k \in 1..Len(events) : events[k] = e
Count(e) == Cardinality({k \in 1..Len(events) : events[k] = e})

\* Whether a search request met something that raises inside the try
\* block: a network error, a timeout, a body that is not JSON, an item
\* with no title, and for the paper search an error status.
Raises(entry) ==
    \/ entry.outcome \in {"network_error", "timeout", "bad_json"}
    \/ entry.missing_title
    \/ entry.api = "scholar" /\ entry.outcome = "http_error"

EmptyBlob == <<"News Headlines: ", ". ", "Research Papers: ", ".">>

C2_LlmFailureAbortsRun ==
    \A k \in 1..Len(llm_calls) :
        ~llm_calls[k].ok =>
            /\ k = Len(llm_calls)
            /\ pc = "aborted"
            /\ json_export = <<>>
            /\ markdown_content = <<>>
            /\ pdf_bytes = <<>>
            /\ ~Occurs("export_json") /\ ~Occurs("export_md") /\ ~Occurs("export_pdf")

\* The call for the second of two selected modules raised after the plan
\* of the first was stored.
C2_Witness ==
    /\ pc = "aborted"
    /\ Len(selected_modules) = 2
    /\ Len(lesson_plans) = 1
    /\ Len(llm_calls) = 3
    /\ ~llm_calls[3].ok

\* C3, as claimed: one LLM call per selected module, the calls being
\* issued in the order the modules have in the parsed outline, not in the
\* order of selection.
C3_CallsInOutlineOrder ==
    /\ Len(LessonCalls) <= Len(widget_selection)
    /\ pc \in {"export", "done"} => Len(LessonCalls) = Len(widget_selection)
    /\ \A a, b \in 1..Len(LessonCalls) :
          a < b => widget_selection[a] <= widget_selection[b]

\* C3, amended: one LLM call per entry of the list the selection widget
\* returned, the k-th call being for the k-th entry of that list: the
\* outline's order under the default selection, the order of selection
\* after the user has edited it.
C3_CallsInSelectionOrder ==
    /\ Len(LessonCalls) <= Len(widget_selection)
    /\ pc \in {"export", "done"} => Len(LessonCalls) = Len(widget_selection)
    /\ \A k \in 1..Len(LessonCalls) :
          LessonCalls[k].about = modules[widget_selection[k]]
    /\ widget_selection = DefaultSelection(modules) =>
          \A k \in 1..Len(LessonCalls) : LessonCalls[k].about = modules[k]

\* The user picked the second module, then the first.
C3_Witness ==
    /\ pc = "done"
    /\ widget_selection = <<2, 1>>
    /\ modules[1] # modules[2]
    /\ Len(LessonCalls) = 2

\* The distinct elements of a sequence, in order of first occurrence.
RECURSIVE Dedup(_)
Dedup(seq) ==
    IF seq = <<>> THEN <<>>
    ELSE LET front == Dedup(SubSeq(seq, 1, Len(seq) - 1))
             last == seq[Len(seq)]
         IN  IF \E k \in 1..Len(front) : front[k] = last
             THEN front ELSE Append(front, last)

\* The content of the last answered call made for a title.
LastReply(title) ==
    LET ks == {k \in 1..Len(LessonCalls) :
                  LessonCalls[k].ok /\ LessonCalls[k].about = title}
    IN  LessonCalls[Max(ks)].content

\* C8: after the k-th iteration the mapping holds the plans of the first
\* k selected modules, one entry per distinct title in order of first
\* submission, each value being the reply to the last call made for that
\* title.
C8_MappingBuiltIncrementally ==
    LET stored == SubSeq(selected_modules, 1, i)
    IN  /\ Len(SelectSeq(LessonCalls, IsOk)) = i
        /\ DictKeys(lesson_plans) = Dedup(stored)
        /\ \A k \in 1..Len(lesson_plans) :
              lesson_plans[k][2] = Strip(LastReply(lesson_plans[k][1]))
        /\ Dedup(stored) = stored => Len(lesson_plans) = i

\* Two selected modules with one title and different replies: one entry.
C8_Witness ==
    /\ pc = "done"
    /\ Len(selected_modules) = 2
    /\ selected_modules[1] = selected_modules[2]
    /\ LessonCalls[1].content # LessonCalls[2].content
    /\ Len(lesson_plans) = 1

Rank(e) ==
    CASE e = "news_fetch" -> 1 [] e = "scholar_fetch" -> 2
      [] e = "combine" -> 3 [] e = "llm_outline" -> 4
      [] e = "llm_lesson" -> 5 [] e = "export_json" -> 6
      [] e = "export_md" -> 7 [] e = "export_pdf" -> 8

\* The PDF's cells for a mapping: a title, then a heading and a body per entry.
PdfMatches(cells, plans) ==
    /\ Len(cells) = 1 + 2 * Len(plans)
    /\ cells[1].kind = "title"
    /\ \A k \in 1..Len(plans) :
          /\ cells[2 * k] = [kind |-> "heading", text |-> ModuleLabel(k, plans[k][1])]
          /\ cells[2 * k + 1] = [kind |-> "body", text |-> plans[k][2]]

\* C9: the stages run in sequence: both fetches are over before the one
\* outline call, the outline call has returned before any lesson-plan
\* call, every call has returned before the next is issued, and the three
\* exports come after the last lesson-plan call, all of the final mapping.
C9_StagesInSequence ==
    /\ \A a \in 1..(Len(events) - 1) :
          \/ Rank(events[a]) < Rank(events[a + 1])
          \/ events[a] = "llm_lesson" /\ events[a + 1] = "llm_lesson"
    /\ Occurs("llm_outline") =>
          /\ Occurs("news_fetch") /\ Occurs("scholar_fetch") /\ Occurs("combine")
          /\ Len(http_log) = 2
          /\ llm_calls[1].kind = "outline"
    /\ Occurs("llm_lesson") => llm_calls[1].kind = "outline" /\ llm_calls[1].ok
    /\ \A k \in 1..Len(llm_calls) : k < Len(llm_calls) => llm_calls[k].ok
    /\ Count("llm_lesson") = Len(LessonCalls)
    /\ (Occurs("export_json") \/ Occurs("export_md") \/ Occurs("export_pdf")
        \/ json_export # <<>> \/ markdown_content # <<>> \/ pdf_bytes # <<>>) =>
          /\ pc = "done"
          /\ Count("llm_lesson") = Len(selected_modules)
          /\ \A k \in 1..Len(llm_calls) : llm_calls[k].ok
          /\ i = Len(selected_modules)
          /\ ModulesRoundTrip(JsonLoads(json_export[1]), lesson_plans)
          /\ H2Lines(markdown_content[1]) =
                Flatten([k \in 1..Len(lesson_plans) |->
                            <<H2Of(k, lesson_plans[k][1])>>
                            \o H2Lines(lesson_plans[k][2])])
          /\ PdfMatches(pdf_bytes[1], lesson_plans)

\* A whole run over two selected modules.
C9_Witness ==
    /\ pc = "done"
    /\ Len(selected_modules) = 2
    /\ events = <<"news_fetch", "scholar_fetch", "combine", "llm_outline",
                  "llm_lesson", "llm_lesson",
                  "export_json", "export_md", "export_pdf">>

\* C10: with n >= 1 selected modules the value reported after the j-th
\* plan is j/n: the values strictly increase and reach 1 exactly at the
\* last plan.  With none selected there is no lesson-plan call and no
\* progress value, the mapping is empty, and the run completes with
\* exports of zero modules.
C10_ProgressWellDefined ==
    LET n == Len(selected_modules)
    IN  /\ Len(progress_log) = i
        /\ \A j \in 1..Len(progress_log) :
              /\ n >= 1
              /\ progress_log[j].den # 0
              /\ progress_log[j].num * n = j * progress_log[j].den
              /\ (progress_log[j].num = progress_log[j].den) <=> (j = n)
        /\ \A j, k \in 1..Len(progress_log) :
              j < k => progress_log[j].num * progress_log[k].den
                          < progress_log[k].num * progress_log[j].den
        /\ (n = 0 /\ pc \in {"loop", "export", "done"}) =>
              /\ LessonCalls = <<>>
              /\ progress_log = <<>>
              /\ lesson_plans = <<>>
        /\ LessonCalls # <<>> => n >= 1
        /\ (n = 0 /\ pc = "loop") => ENABLED lesson_plans_return
        /\ (n = 0 /\ pc = "done") =>
              /\ ModulesRoundTrip(JsonLoads(json_export[1]), <<>>)
              /\ H2Lines(markdown_content[1]) = <<>>
              /\ Len(pdf_bytes[1]) = 1

\* The user cleared the selection of a two-module outline; the run is done.
C10_Witness ==
    /\ pc = "done"
    /\ Len(modules) = 2
    /\ selected_modules = <<>>
    /\ json_export # <<>>

====
